---- MODULE Spec2Model ----
(***************************************************************************)
(* Model of src/app.py: a Streamlit script that is re-executed from the    *)
(* top on every user interaction.  st.session_state survives between the   *)
(* executions; everything else is recomputed.  One behaviour of the model  *)
(* is a sequence of script runs over one browser session after another.    *)
(***************************************************************************)
EXTENDS Integers, Sequences, FiniteSets, TLC

VARIABLES
    session,     \* st.session_state: a function from the keys it holds
    query,       \* st.query_params: "none" or the authorization code
    now,         \* time.time(), in seconds
    pc,          \* position of the running script
    r,           \* the last HTTP response received (the code's `r`)
    netlog,      \* requests sent since the user's interaction started
    ui,          \* messages the current script run rendered
    formShown,   \* the page currently shows the task form
    submitted,   \* st.form_submit_button of the current run
    proj_id,     \* id of the selected project
    fields,      \* the field schemas of the selected project
    base_title,  \* text of the "Task title" input
    base_desc,   \* text of the "Description" input
    field_values,\* the values collected by the form, by field id
    payload,     \* the payload handed to api_post
    shown_task   \* the task id the success message shows

\* the variables the script assigns below the login gate
scriptv == <<proj_id, fields, base_title, base_desc, field_values, payload,
             shown_task>>

vars == <<session, query, now, pc, r, netlog, ui, formShown, submitted,
          scriptv>>

\* ---- bounds -------------------------------------------------------------
MaxTime == 3
MaxDelay == 1

\* ---- program constants --------------------------------------------------
DefaultExpiresIn == 3600
SafetyMargin == 60

None == "None"            \* Python's None, as a stored value
NoValue == "-"            \* a script variable not assigned in this run
EmptyDict == [k \in {} |-> None]
EmptySession == EmptyDict
NoResponse == [status |-> 0, body |-> [json |-> FALSE]]

\* ---- the HTTP responses the environment can give -------------------------
Statuses == {200, 201, 304, 400}

NonJson == [json |-> FALSE]
Json(o) == [json |-> TRUE, obj |-> o]

TokenBodies ==
    { NonJson,
      Json([error |-> "invalid_grant"]),
      Json([access_token |-> ""]),
      Json([access_token |-> "T1"]),
      Json([access_token |-> "T1", refresh_token |-> "R1", expires_in |-> 61]),
      Json([access_token |-> "T2", refresh_token |-> "R2", expires_in |-> 62]),
      Json([access_token |-> "T2", expires_in |-> 61]) }

TokenResponses == [status : Statuses, body : TokenBodies]

\* requests.Response.ok: the status is below 400
Ok(resp) == resp.status < 400

\* dict.get(key, default)
Get(d, k, default) == IF k \in DOMAIN d THEN d[k] ELSE default

\* Python truthiness of the values the model stores
Truthy(v) == v # None /\ v # ""

\* st.session_state.update(u)
Update(s, u) ==
    [k \in DOMAIN s \cup DOMAIN u |-> IF k \in DOMAIN u THEN u[k] ELSE s[k]]

\* save_tokens without the safety margin
save_tokens_NoMargin(s, tok, t) ==
    Update(s, [access_token  |-> tok["access_token"],
               refresh_token |-> Get(tok, "refresh_token", None),
               expires_at    |-> t + Get(tok, "expires_in", DefaultExpiresIn)])

\* save_tokens keeping the stored refresh token when the response has none
save_tokens_KeepsRefreshToken(s, tok, t) ==
    Update(s, [access_token  |-> tok["access_token"],
               refresh_token |-> Get(tok, "refresh_token",
                                     Get(s, "refresh_token", None)),
               expires_at    |-> t + Get(tok, "expires_in", DefaultExpiresIn)
                                    - SafetyMargin])

\* save_tokens(tok), executed at time t
save_tokens(s, tok, t) ==
    Update(s, [access_token  |-> tok["access_token"],
               refresh_token |-> Get(tok, "refresh_token", None),
               expires_at    |-> t + Get(tok, "expires_in", DefaultExpiresIn)
                                    - SafetyMargin])

\* token_valid with the boundary instant counted as valid
token_valid_Inclusive(s, t) ==
    "access_token" \in DOMAIN s /\ t <= Get(s, "expires_at", 0)

\* token_valid() at time t
token_valid(s, t) ==
    "access_token" \in DOMAIN s /\ t < Get(s, "expires_at", 0)

\* the acceptance test without `r.ok`
TokenOutcome_IgnoresStatus(resp) ==
    IF ~resp.body.json THEN (IF Ok(resp) THEN "raises" ELSE "rejected")
    ELSE IF Truthy(Get(resp.body.obj, "access_token", None)) THEN "accepted"
    ELSE "rejected"

\* `r.ok and r.json().get("access_token")` has three outcomes: the response is
\* accepted, it is rejected, or r.json() raises because the body is not JSON.
TokenOutcome(resp) ==
    IF ~Ok(resp) THEN "rejected"
    ELSE IF ~resp.body.json THEN "raises"
    ELSE IF Truthy(Get(resp.body.obj, "access_token", None)) THEN "accepted"
    ELSE "rejected"

Req(kind, cred) == [kind |-> kind, cred |-> cred]

Init ==
    /\ session = EmptySession
    /\ query = "none"
    /\ now = 0
    /\ pc = "idle"
    /\ r = NoResponse
    /\ netlog = <<>>
    /\ ui = {}
    /\ formShown = FALSE
    /\ submitted = FALSE
    /\ proj_id = NoValue
    /\ fields = <<>>
    /\ base_title = NoValue
    /\ base_desc = NoValue
    /\ field_values = EmptyDict
    /\ payload = NoValue
    /\ shown_task = NoValue

\* a script run starts with none of its variables assigned
ResetScript ==
    /\ proj_id' = NoValue
    /\ fields' = <<>>
    /\ base_title' = NoValue
    /\ base_desc' = NoValue
    /\ field_values' = EmptyDict
    /\ payload' = NoValue
    /\ shown_task' = NoValue

Halted == pc \in {"idle", "stopped", "crashed", "done"}

\* time passes, whatever the script is doing
Tick ==
    /\ now < MaxTime
    /\ now' = now + 1
    /\ UNCHANGED <<session, query, pc, r, netlog, ui, formShown, submitted,
                   scriptv>>

\* ---- a user interaction starts a script run -------------------------------

\* The browser loads the page (first visit, reload, or the redirect back from
\* the authorization endpoint, which carries ?code=...): a new session.
PageLoad ==
    /\ Halted
    /\ \E q \in {"none", "abc123"} : query' = q
    /\ session' = EmptySession
    /\ pc' = "code"
    /\ r' = NoResponse
    /\ netlog' = <<>>
    /\ ui' = {}
    /\ formShown' = FALSE
    /\ submitted' = FALSE
    /\ ResetScript
    /\ UNCHANGED now

\* The user touches a widget of the page shown (or presses "Create Task" when
\* the form is on the page): the script reruns in the same session.
Interact ==
    /\ Halted
    /\ pc # "idle"
    /\ \E sub \in BOOLEAN :
          /\ sub => formShown
          /\ submitted' = sub
    /\ pc' = "code"
    /\ r' = NoResponse
    /\ netlog' = <<>>
    /\ ui' = {}
    /\ formShown' = FALSE
    /\ ResetScript
    /\ UNCHANGED <<session, query, now>>

\* The browser comes back from the authorization endpoint with ?code=... into
\* the session it left: the script reruns with the code in st.query_params.
Redirected ==
    /\ Halted
    /\ pc # "idle"
    /\ query' = "abc123"
    /\ submitted' = FALSE
    /\ pc' = "code"
    /\ r' = NoResponse
    /\ netlog' = <<>>
    /\ ui' = {}
    /\ formShown' = FALSE
    /\ ResetScript
    /\ UNCHANGED <<session, now>>

\* ---- OAUTH CODE FLOW (lines 99-117) ---------------------------------------
\* The block, given what the second operand of its guard evaluates to.
CodeFlow(noToken) ==
    /\ pc = "code"
    /\ IF query # "none" /\ noToken
       THEN \E resp \in TokenResponses, d \in 0..MaxDelay :
              /\ now + d <= MaxTime
              /\ now' = now + d
              /\ r' = resp
              /\ netlog' = Append(netlog, Req("exchange", query))
              /\ CASE TokenOutcome(resp) = "accepted" ->
                        \* save_tokens, query_params.clear(), st.rerun()
                        /\ session' = save_tokens(session, resp.body.obj, now')
                        /\ query' = "none"
                        /\ ui' = {}
                        /\ pc' = "code"
                   [] TokenOutcome(resp) = "rejected" ->
                        /\ ui' = ui \cup {"exchange_failed"}
                        /\ pc' = "stopped"
                        /\ UNCHANGED <<session, query>>
                   [] TokenOutcome(resp) = "raises" ->
                        /\ pc' = "crashed"
                        /\ UNCHANGED <<session, query, ui>>
       ELSE /\ pc' = "gate"
            /\ UNCHANGED <<session, query, now, r, netlog, ui>>
    /\ UNCHANGED <<formShown, submitted, scriptv>>

\* the code flow guarded by the validity of the token, not by its presence
OAuthCodeFlow_GuardsOnValidity == CodeFlow(~token_valid(session, now))

OAuthCodeFlow == CodeFlow("access_token" \notin DOMAIN session)

\* ---- LOGIN BUTTON (lines 120-125) -----------------------------------------
LoginGate ==
    /\ pc = "gate"
    /\ IF ~token_valid(session, now)
       THEN /\ ui' = ui \cup {"login_link"}
            /\ pc' = "stopped"
       ELSE /\ ui' = ui \cup {"connected"}
            /\ pc' = "list_ensure"
    /\ UNCHANGED <<session, query, now, r, netlog, formShown, submitted,
                   scriptv>>

\* refresh_token returning True whatever the token endpoint answered
refresh_token_ReturnsTrue(s, resp, t) ==
    IF "refresh_token" \notin DOMAIN s
    THEN [sent |-> FALSE, session |-> s, ret |-> "False"]
    ELSE CASE TokenOutcome(resp) = "accepted" ->
                [sent |-> TRUE, session |-> save_tokens(s, resp.body.obj, t),
                 ret |-> "True"]
           [] TokenOutcome(resp) = "rejected" ->
                [sent |-> TRUE, session |-> s, ret |-> "True"]
           [] TokenOutcome(resp) = "raises" ->
                [sent |-> TRUE, session |-> s, ret |-> "raises"]

\* ---- refresh_token() (lines 35-51) ----------------------------------------
\* The result of the call when the token endpoint would answer resp and the
\* answer arrives at time t: whether a request was sent, the session
\* afterwards, and the value returned ("raises" when r.json() raises).
refresh_token(s, resp, t) ==
    IF "refresh_token" \notin DOMAIN s
    THEN [sent |-> FALSE, session |-> s, ret |-> "False"]
    ELSE CASE TokenOutcome(resp) = "accepted" ->
                [sent |-> TRUE, session |-> save_tokens(s, resp.body.obj, t),
                 ret |-> "True"]
           [] TokenOutcome(resp) = "rejected" ->
                [sent |-> TRUE, session |-> s, ret |-> "False"]
           [] TokenOutcome(resp) = "raises" ->
                [sent |-> TRUE, session |-> s, ret |-> "raises"]

EnsurePcs == {"list_ensure", "detail_ensure", "post_ensure"}

AfterEnsure(p) ==
    CASE p = "list_ensure" -> "list_send"
      [] p = "detail_ensure" -> "detail_send"
      [] p = "post_ensure" -> "post_send"

\* ---- ensure_token() (lines 53-56), first statement of api_get / api_post ---
\* The call, given what token_valid() answered and the position the script is
\* at after the refresh returned False (st.stop() halts it).
EnsureToken(valid, afterFalse) ==
    /\ pc \in EnsurePcs
    /\ IF valid
       THEN /\ pc' = AfterEnsure(pc)
            /\ UNCHANGED <<session, now, r, netlog, ui>>
       ELSE \E resp \in TokenResponses, d \in 0..MaxDelay :
              LET res == refresh_token(session, resp, now + d) IN
              /\ now + d <= MaxTime
              /\ IF res.sent
                 THEN /\ now' = now + d
                      /\ r' = resp
                      /\ netlog' = Append(netlog,
                                     Req("refresh", session["refresh_token"]))
                 ELSE /\ d = 0
                      /\ resp = CHOOSE x \in TokenResponses : TRUE
                      /\ UNCHANGED <<now, r, netlog>>
              /\ session' = res.session
              /\ CASE res.ret = "True" ->
                        /\ pc' = AfterEnsure(pc)
                        /\ UNCHANGED ui
                   [] res.ret = "False" ->
                        /\ ui' = ui \cup {"token_warning"}
                        /\ pc' = afterFalse
                   [] res.ret = "raises" ->
                        /\ pc' = "crashed"
                        /\ UNCHANGED ui
    /\ UNCHANGED <<query, formShown, submitted, scriptv>>

\* ensure_token refreshing without asking token_valid
ensure_token_AlwaysRefreshes == EnsureToken(FALSE, "stopped")

\* ensure_token without the st.stop()
ensure_token_NoStop ==
    EnsureToken(token_valid(session, now), AfterEnsure(pc))

ensure_token == EnsureToken(token_valid(session, now), "stopped")

\* ---- JSON values of the API responses -------------------------------------
JList(l) == [t |-> "list", l |-> l]
JDict(d) == [t |-> "dict", d |-> d]
JBody(v) == [json |-> TRUE, val |-> v]

P1 == [id |-> "P1", title |-> "Proj"]
P2 == [id |-> "P2"]

ListBodies ==
    { NonJson,
      JBody(JList(<<>>)),
      JBody(JList(<<P1>>)),
      JBody(JDict([data |-> JList(<<P1, P2>>)])),
      JBody(JDict([items |-> JList(<<P1>>)])) }

Low == [label |-> "Low", value |-> "L"]
High == [label |-> "High", value |-> "H"]

FSelect == [id |-> "f_sel", label |-> "Priority", type |-> "select",
            options |-> <<Low, High>>]
FSelectNoOpts == [id |-> "f_sel", label |-> "Priority", type |-> "select"]
FText == [id |-> "f_txt", label |-> "Note"]
FWeird == [id |-> "f_odd", type |-> "weird"]
FCheck == [id |-> "f_chk", label |-> "Urgent", type |-> "checkbox"]

DetailBodies ==
    { NonJson,
      JBody(JDict([fields |-> <<FText>>])),
      JBody(JDict([data |-> JDict([fields |-> <<FSelect>>])])),
      JBody(JDict([data |-> JDict([fields |-> <<FText, FWeird>>])])),
      JBody(JDict([data |-> JDict([fields |-> <<FSelectNoOpts, FCheck>>])])),
      JBody(JList(<<>>)) }

TaskBodies ==
    { NonJson,
      JBody(JDict([data |-> JDict([id |-> "T-101"])])),
      JBody(JDict([success |-> "true"])),
      JBody(JList(<<>>)) }

\* ---- api_get / api_post after ensure_token (lines 62-74, 79-96) -----------
\* api_get without the `if not r.ok` halt
api_get_NoStatusCheck(resp) ==
    IF ~resp.body.json THEN "not_json" ELSE "returns"

\* What api_get does with the response: halt with "GET failed", halt with
\* "Response was not JSON", or return the parsed body.
api_get(resp) ==
    IF ~Ok(resp) THEN "get_failed"
    ELSE IF ~resp.body.json THEN "not_json"
    ELSE "returns"

\* api_post has no try around r.json(): a non-JSON body raises.
api_post(resp) ==
    IF ~Ok(resp) THEN "post_failed"
    ELSE IF ~resp.body.json THEN "raises"
    ELSE "returns"

Bearer == session["access_token"]

\* ---- PROJECT LIST (lines 128-139) -----------------------------------------
Unnamed(i) == <<"Unnamed 0", "Unnamed 1", "Unnamed 2">>[i + 1]

\* the key of the i-th project (enumerate counts from 0)
ProjTitle(l, i) == Get(l[i], "title", Unnamed(i - 1))

\* {p.get("title", f"Unnamed {i}"): p["id"] ...}: a later project with the
\* same title replaces an earlier one
proj_map(l) ==
    [k \in {ProjTitle(l, i) : i \in 1..Len(l)} |->
        LET last == CHOOSE i \in 1..Len(l) :
                       /\ ProjTitle(l, i) = k
                       /\ \A j \in 1..Len(l) : ProjTitle(l, j) = k => j <= i
        IN  l[last]["id"]]

\* the project list taken without unwrapping the envelope
proj_data_of_NoUnwrap(proj_resp) == proj_resp

\* proj_resp.get("data", []) if isinstance(proj_resp, dict) else proj_resp
proj_data_of(proj_resp) ==
    IF proj_resp.t = "dict" THEN Get(proj_resp.d, "data", JList(<<>>))
    ELSE proj_resp

ProjectList ==
    /\ pc = "list_send"
    /\ \E resp \in [status : Statuses, body : ListBodies], d \in 0..MaxDelay :
         /\ now + d <= MaxTime
         /\ now' = now + d
         /\ r' = resp
         /\ netlog' = Append(netlog, Req("get", Bearer))
         /\ IF api_get(resp) # "returns"
            THEN /\ ui' = ui \cup {api_get(resp)}
                 /\ pc' = "stopped"
                 /\ UNCHANGED proj_id
            ELSE LET proj_data == proj_data_of(resp.body.val) IN
                 IF proj_data.t # "list" \/ proj_data.l = <<>>
                 THEN /\ ui' = ui \cup {"list_empty"}
                      /\ pc' = "stopped"
                      /\ UNCHANGED proj_id
                 ELSE \E sel_name \in DOMAIN proj_map(proj_data.l) :
                        /\ proj_id' = proj_map(proj_data.l)[sel_name]
                        /\ pc' = "detail_ensure"
                        /\ UNCHANGED ui
    /\ UNCHANGED <<session, query, formShown, submitted, fields, base_title,
                   base_desc, field_values, payload, shown_task>>

\* ---- PROJECT DETAIL & FIELDS (lines 142-150) ------------------------------
\* proj_detail_resp.get("data", {}) if isinstance(..., dict) else the response
p_detail_of(proj_detail_resp) ==
    IF proj_detail_resp.t = "dict"
    THEN Get(proj_detail_resp.d, "data", JDict(EmptyDict))
    ELSE proj_detail_resp

ProjectDetail ==
    /\ pc = "detail_send"
    /\ \E resp \in [status : Statuses, body : DetailBodies], d \in 0..MaxDelay :
         /\ now + d <= MaxTime
         /\ now' = now + d
         /\ r' = resp
         /\ netlog' = Append(netlog, Req("get", Bearer))
         /\ IF api_get(resp) # "returns"
            THEN /\ ui' = ui \cup {api_get(resp)}
                 /\ pc' = "stopped"
                 /\ UNCHANGED fields
            ELSE LET p_detail == p_detail_of(resp.body.val) IN
                 IF p_detail.t # "dict"
                 THEN \* a list has no .get
                      /\ pc' = "crashed"
                      /\ UNCHANGED <<ui, fields>>
                 ELSE /\ fields' = Get(p_detail.d, "fields", <<>>)
                      /\ ui' = IF fields' = <<>> THEN ui \cup {"no_fields"}
                               ELSE ui
                      /\ pc' = "form"
    /\ UNCHANGED <<session, query, formShown, submitted, proj_id, base_title,
                   base_desc, field_values, payload, shown_task>>

\* ---- DYNAMIC FORM (lines 153-179) -----------------------------------------
TextTypes == {"singleline", "text"}
KnownTypes == TextTypes \cup {"multiline", "select", "checkbox", "date", "number"}

ftype(f) == Get(f, "type", "text")

\* {o["label"]: o["value"] for o in f.get("options", [])}
opts(f) ==
    LET os == Get(f, "options", <<>>) IN
    [l \in {os[i]["label"] : i \in 1..Len(os)} |->
        LET last == CHOOSE i \in 1..Len(os) :
                       /\ os[i]["label"] = l
                       /\ \A j \in 1..Len(os) : os[j]["label"] = l => j <= i
        IN  os[last]["value"]]

\* what the field's widget can return to the script
WidgetReturns(f) ==
    CASE ftype(f) = "select" ->
            IF DOMAIN opts(f) = {} THEN {"-- none --"} ELSE DOMAIN opts(f)
      [] ftype(f) = "checkbox" -> BOOLEAN
      [] ftype(f) = "date" -> {"2026-11-05"}
      [] ftype(f) = "number" -> {0, 5}
      [] OTHER -> {"", "x"}

\* the value stored under the field's id for the widget's return value w
FieldValue(f, w) ==
    IF ftype(f) = "select" THEN Get(opts(f), w, None) ELSE w

\* the loop storing each value under the field's label
RECURSIVE FormResults_KeyedByLabel(_)
FormResults_KeyedByLabel(fs) ==
    IF fs = <<>> THEN {EmptyDict}
    ELSE LET f == fs[Len(fs)] IN
         { Update(fv, [k \in {Get(f, "label", f["id"])} |-> FieldValue(f, w)]) :
              fv \in FormResults_KeyedByLabel(SubSeq(fs, 1, Len(fs) - 1)),
              w \in WidgetReturns(f) }

\* the loop over fields: every mapping it can leave in field_values
RECURSIVE FormResults(_)
FormResults(fs) ==
    IF fs = <<>> THEN {EmptyDict}
    ELSE LET f == fs[Len(fs)] IN
         { Update(fv, [k \in {f["id"]} |-> FieldValue(f, w)]) :
              fv \in FormResults(SubSeq(fs, 1, Len(fs) - 1)),
              w \in WidgetReturns(f) }

DynamicForm ==
    /\ pc = "form"
    /\ \E t \in {"", "Fix bug"} : base_title' = t
    /\ \E b \in {"details"} : base_desc' = b
    /\ \E fv \in FormResults(fields) : field_values' = fv
    /\ ui' = IF \E i \in 1..Len(fields) : ftype(fields[i]) \notin KnownTypes
             THEN ui \cup {"unknown_type"} ELSE ui
    /\ formShown' = TRUE
    /\ pc' = "submit"
    /\ UNCHANGED <<session, query, now, r, netlog, submitted, proj_id, fields,
                   payload, shown_task>>

\* ---- SUBMIT (lines 181-191) -----------------------------------------------
\* the payload without the default title
build_payload_NoDefaultTitle ==
    [title       |-> base_title,
     description |-> base_desc,
     project     |-> proj_id,
     fields      |-> field_values]

build_payload ==
    [title       |-> IF base_title # "" THEN base_title ELSE "Untitled Task",
     description |-> base_desc,
     project     |-> proj_id,
     fields      |-> field_values]

\* The block, given the value its `if` tests.
SubmitBlock(pressed) ==
    /\ pc = "submit"
    /\ IF pressed
       THEN /\ payload' = build_payload
            /\ pc' = "post_ensure"
       ELSE /\ pc' = "done"
            /\ UNCHANGED payload
    /\ UNCHANGED <<session, query, now, r, netlog, ui, formShown, submitted,
                   proj_id, fields, base_title, base_desc, field_values,
                   shown_task>>

\* the submit block entered whether or not the button was pressed
Submit_IgnoresSubmitted == SubmitBlock(TRUE)

Submit == SubmitBlock(submitted)

TaskPost ==
    /\ pc = "post_send"
    /\ \E resp \in [status : Statuses, body : TaskBodies], d \in 0..MaxDelay :
         /\ now + d <= MaxTime
         /\ now' = now + d
         /\ r' = resp
         /\ netlog' = Append(netlog, Req("post", Bearer))
         /\ CASE api_post(resp) = "post_failed" ->
                   /\ ui' = ui \cup {"post_failed"}
                   /\ pc' = "stopped"
                   /\ UNCHANGED shown_task
              [] api_post(resp) = "raises" ->
                   /\ pc' = "crashed"
                   /\ UNCHANGED <<ui, shown_task>>
              [] api_post(resp) = "returns" ->
                   LET new_task == resp.body.val IN
                   IF new_task.t # "dict"
                   THEN /\ pc' = "crashed"
                        /\ UNCHANGED <<ui, shown_task>>
                   ELSE LET data == Get(new_task.d, "data", JDict(EmptyDict)) IN
                        /\ shown_task' = Get(data.d, "id", "unknown")
                        /\ ui' = ui \cup {"task_created"}
                        /\ pc' = "done"
    /\ UNCHANGED <<session, query, formShown, submitted, proj_id, fields,
                   base_title, base_desc, field_values, payload>>

Next ==
    \/ Tick
    \/ PageLoad
    \/ Interact
    \/ Redirected
    \/ OAuthCodeFlow
    \/ LoginGate
    \/ ensure_token
    \/ ProjectList
    \/ ProjectDetail
    \/ DynamicForm
    \/ Submit
    \/ TaskPost

Spec == Init /\ [][Next]_vars

\* ======================= properties ========================================
TokenKeys == {"access_token", "refresh_token", "expires_at"}

LastReq == netlog[Len(netlog)]

\* the step taken is a call of ensure_token (the only step that leaves an
\* ensure position)
EnsureStep == pc \in EnsurePcs /\ pc' # pc

\* the step sent one more request, of the given kinds
Sent(kinds) ==
    /\ Len(netlog') = Len(netlog) + 1
    /\ netlog'[Len(netlog')].kind \in kinds

\* the session holds an access_token that has not expired
HoldsUnexpiredToken ==
    "access_token" \in DOMAIN session /\ now < session["expires_at"]

\* the session holds a refresh token (the key alone, holding None, is none)
HoldsRefreshToken(s) ==
    "refresh_token" \in DOMAIN s /\ s["refresh_token"] # None

\* the last request went to the token endpoint and its answer was not accepted
TokenRequestFailed(kind) ==
    /\ netlog # <<>>
    /\ LastReq.kind = kind
    /\ TokenOutcome(r) # "accepted"

\* C1: whenever ensure_token runs while the token is not valid and the session
\* holds no refresh token, it halts the interaction and sends no request to
\* the token endpoint.
C1_NoRefreshTokenNoRequest ==
    [][ (EnsureStep /\ ~HoldsUnexpiredToken /\ ~HoldsRefreshToken(session))
        => (netlog' = netlog /\ pc' = "stopped") ]_vars

\* C2: after a refresh attempt failed inside ensure_token the session no
\* longer holds access_token, refresh_token or expires_at, and the user is
\* asked to log in again.
C2_FailedRefreshDiscardsCredential ==
    (TokenRequestFailed("refresh") /\ pc = "stopped")
    => (DOMAIN session \cap TokenKeys = {} /\ "token_warning" \in ui)

\* C3: a call of ensure_token sends at most one request, a refresh; when the
\* refresh fails the run is halted and no request of any kind follows in it.
C3_OneRefreshThenHalt ==
    [][ /\ EnsureStep =>
              \/ netlog' = netlog
              \/ Sent({"refresh"})
        /\ TokenRequestFailed("refresh")' => pc' \in {"stopped", "crashed"}
        /\ TokenRequestFailed("refresh") =>
              (netlog' = netlog \/ netlog' = <<>>) ]_vars

C3_Witness ==
    /\ TokenRequestFailed("refresh")
    /\ pc = "stopped"
    /\ Len(netlog) >= 2

\* C4: ensure_token on a valid token sends nothing and leaves access_token,
\* refresh_token and expires_at as they are.
C4_ValidTokenUntouched ==
    [][ (EnsureStep /\ HoldsUnexpiredToken)
        => /\ netlog' = netlog
           /\ session' = session
           /\ pc' = AfterEnsure(pc) ]_vars

C4_Witness ==
    /\ pc = "detail_send"
    /\ HoldsUnexpiredToken
    /\ \A i \in 1..Len(netlog) : netlog[i].kind # "refresh"

\* C5: an API GET or POST is sent only from the position right after a
\* successful ensure_token, with an access_token in the session, and never
\* in a run in which ensure_token has failed.
C5_ApiOnlyAfterEnsure ==
    [][ Sent({"get", "post"})
        => /\ pc \in {"list_send", "detail_send", "post_send"}
           /\ "access_token" \in DOMAIN session
           /\ netlog'[Len(netlog')].cred = session["access_token"]
           /\ "token_warning" \notin ui
           /\ ~TokenRequestFailed("refresh") ]_vars

C5_Witness ==
    /\ netlog # <<>>
    /\ LastReq.kind = "post"
    /\ \E i \in 1..Len(netlog) : netlog[i].kind = "refresh"

\* the step taken is the code exchange of the OAuth code flow
ExchangeStep == pc = "code" /\ Sent({"exchange"})

\* the body is a JSON object carrying a (non-empty) access_token
CarriesAccessToken(resp) ==
    /\ resp.body.json
    /\ "access_token" \in DOMAIN resp.body.obj
    /\ resp.body.obj["access_token"] # ""

\* the step stored a credential
Stored == session' # session /\ "access_token" \in DOMAIN session'

\* the exchange is an error: nothing stored, the run halted
ExchangeIsError ==
    /\ session' = session
    /\ pc' \in {"stopped", "crashed"}

\* C6 as stated: the exchange stores a credential only on HTTP status 200
\* with a body containing access_token; any other answer is an error that
\* leaves the session unchanged and halts the run.
C6_StoredOnlyOnStatus200 ==
    [][ ExchangeStep =>
          \/ (r'.status = 200 /\ CarriesAccessToken(r'))
          \/ ExchangeIsError ]_vars

\* C6 amended: the exchange stores a credential only when the status is one
\* requests counts as ok (below 400) and the body is a JSON object with a
\* non-empty access_token, and what it stores is that access_token; any other
\* answer is an error that leaves the session unchanged and halts the run,
\* and no request follows it.
C6_StoredOnlyOnOkStatus ==
    [][ /\ ExchangeStep =>
              \/ /\ r'.status < 400 /\ CarriesAccessToken(r')
                 /\ Stored =>
                       session'["access_token"] = r'.body.obj["access_token"]
              \/ ExchangeIsError
        /\ TokenRequestFailed("exchange") =>
              (netlog' = netlog \/ netlog' = <<>>) ]_vars

C6_Witness ==
    /\ netlog # <<>>
    /\ LastReq.kind = "exchange"
    /\ r.status = 201
    /\ "access_token" \in DOMAIN session
    /\ pc = "list_send"

\* the expires_in the stored response declares, 3600 when it carries none
DeclaredExpiresIn(resp) ==
    IF "expires_in" \in DOMAIN resp.body.obj
    THEN resp.body.obj["expires_in"] ELSE 3600

\* C7: whenever a credential is stored, its expires_at is the time of storing
\* plus the response's expires_in (3600 when absent) minus 60.
C7_ExpiresAtHasMargin ==
    [][ Stored =>
          session'["expires_at"] = now' + DeclaredExpiresIn(r') - 60 ]_vars

C7_Witness ==
    /\ netlog # <<>>
    /\ LastReq.kind = "refresh"
    /\ TokenOutcome(r) = "accepted"
    /\ "expires_in" \notin DOMAIN r.body.obj
    /\ session["expires_at"] = now + 3540

\* C8: token_valid is true exactly when the session holds an access_token and
\* now is strictly below expires_at (false at now = expires_at and without
\* an access_token): the login gate lets the run pass, and ensure_token
\* returns without a request, in exactly those states.
C8_TokenValidIffUnexpired ==
    [][ /\ (pc = "gate" /\ pc' # pc) =>
              ((pc' = "list_ensure") <=> HoldsUnexpiredToken)
        /\ EnsureStep =>
              ((pc' = AfterEnsure(pc) /\ netlog' = netlog)
                  <=> HoldsUnexpiredToken) ]_vars

C8_Witness ==
    /\ pc = "stopped"
    /\ "login_link" \in ui
    /\ "access_token" \in DOMAIN session
    /\ now = session["expires_at"]

\* C9: a refresh that succeeds leaves exactly the three token fields of the
\* response in the session (refresh_token None when the response has none);
\* a refresh that fails leaves the session as it was.
C9_RefreshReplacesWholesale ==
    [][ (EnsureStep /\ Sent({"refresh"})) =>
          IF pc' = AfterEnsure(pc)
          THEN /\ DOMAIN session' = TokenKeys
               /\ session'["access_token"] = r'.body.obj["access_token"]
               /\ session'["refresh_token"] =
                     (IF "refresh_token" \in DOMAIN r'.body.obj
                      THEN r'.body.obj["refresh_token"] ELSE None)
               /\ session'["expires_at"] = now' + DeclaredExpiresIn(r') - 60
          ELSE session' = session ]_vars

C9_Witness ==
    /\ netlog # <<>>
    /\ LastReq.kind = "refresh"
    /\ LastReq.cred = "R1"
    /\ TokenOutcome(r) = "accepted"
    /\ session["refresh_token"] = None
    /\ session["access_token"] = "T2"

\* C10: the run reports a created task only when the task POST returned 2xx
\* and a task id was obtained from it; every other outcome of the POST shows
\* a failure (the error message, or the traceback of the exception raised).
PostAnswered == netlog # <<>> /\ LastReq.kind = "post"

C10_NoPartialSuccess ==
    PostAnswered =>
        IF "task_created" \in ui
        THEN r.status \in 200..299 /\ shown_task \notin {NoValue, "unknown"}
        ELSE "post_failed" \in ui \/ pc = "crashed"

\* the last request was an API call answered with the given statuses
ApiAnswered(statuses) ==
    /\ netlog # <<>>
    /\ LastReq.kind \in {"get", "post"}
    /\ r.status \in statuses

\* the run was halted by st.stop() after an API error message
HaltedWithApiError ==
    /\ pc' = "stopped"
    /\ ui' \cap {"get_failed", "post_failed"} # {}

\* C11 as stated: a non-2xx status on an API call halts the run with an error
\* and no request follows in that run.
C11_Non2xxIsTerminal ==
    [][ /\ (Sent({"get", "post"}) /\ r'.status \notin 200..299)
              => pc' \in {"stopped", "crashed"}
        /\ ApiAnswered(Statuses \ (200..299)) =>
              (netlog' = netlog \/ netlog' = <<>>) ]_vars

\* C11 amended: a status of 400 or above on an API call halts the run with an
\* error, and no request follows in that run (a new request needs a new
\* interaction of the user).
C11_ErrorStatusIsTerminal ==
    [][ /\ (Sent({"get", "post"}) /\ r'.status >= 400)
              => HaltedWithApiError
        /\ ApiAnswered({st \in Statuses : st >= 400}) =>
              (netlog' = netlog \/ (netlog' = <<>> /\ Halted)) ]_vars

C11_Witness ==
    /\ ApiAnswered({400})
    /\ LastReq.kind = "post"
    /\ pc = "stopped"
    /\ "post_failed" \in ui

\* C12: a 2xx answer to api_get or api_post whose body is not JSON ends in
\* the handled error (the "not JSON" message and st.stop()), never in an
\* exception and never in a returned value.
C12_MalformedBodyHandled ==
    (ApiAnswered(200..299) /\ ~r.body.json)
    => (pc = "stopped" /\ "not_json" \in ui)

\* the project-list step
ListStep == pc = "list_send" /\ Sent({"get"})

\* the envelope key under which a JSON object carries a list, if any
EnvelopedUnder(v, key) ==
    /\ v.t = "dict"
    /\ key \in DOMAIN v.d
    /\ v.d[key].t = "list"

\* the ids of the projects of a list
ProjectIds(l) == {l[i]["id"] : i \in 1..Len(l)}

\* the run goes on to the project-detail GET with a project of the list
ProceedsWith(l) ==
    /\ pc' = "detail_ensure"
    /\ proj_id' \in ProjectIds(l)

\* C13 as stated: a 2xx project-list answer carrying a non-empty list, bare
\* or enveloped under items or under data, yields that list and the run
\* goes on to the project-detail GET.
C13_ListFromAnyEnvelope ==
    [][ (ListStep /\ r'.status \in 200..299 /\ r'.body.json) =>
          LET v == r'.body.val IN
          /\ (v.t = "list" /\ v.l # <<>>) => ProceedsWith(v.l)
          /\ (EnvelopedUnder(v, "data") /\ v.d["data"].l # <<>>)
                => ProceedsWith(v.d["data"].l)
          /\ (EnvelopedUnder(v, "items") /\ v.d["items"].l # <<>>)
                => ProceedsWith(v.d["items"].l) ]_vars

\* C13 amended: a 2xx project-list answer carrying a non-empty list, bare or
\* enveloped under data, yields that list and the run goes on to the
\* project-detail GET; a list enveloped under items is not unwrapped: the
\* run halts with "Project list empty or unexpected shape".
C13_ListBareOrUnderData ==
    [][ (ListStep /\ r'.status \in 200..299 /\ r'.body.json) =>
          LET v == r'.body.val IN
          /\ (v.t = "list" /\ v.l # <<>>) => ProceedsWith(v.l)
          /\ (EnvelopedUnder(v, "data") /\ v.d["data"].l # <<>>)
                => ProceedsWith(v.d["data"].l)
          /\ (EnvelopedUnder(v, "items") /\ ~EnvelopedUnder(v, "data"))
                => (pc' = "stopped" /\ "list_empty" \in ui') ]_vars

C13_Witness ==
    /\ pc = "detail_send"
    /\ proj_id = "P2"
    /\ Len(netlog) >= 1
    /\ netlog[Len(netlog)].kind = "get"
    /\ EnvelopedUnder(r.body.val, "data")

\* the select fields of the form that was rendered
SelectFields ==
    {i \in 1..Len(fields) :
        "type" \in DOMAIN fields[i] /\ fields[i]["type"] = "select"}

\* the option values of a field schema
OptionValues(f) ==
    IF "options" \in DOMAIN f
    THEN {f["options"][i]["value"] : i \in 1..Len(f["options"])}
    ELSE {}

\* C14: the value collected for a select field is the value of one of its
\* options (the one whose label was chosen), and the empty string when the
\* field has no options.
C14_SelectValue ==
    formShown =>
        \A i \in SelectFields :
            LET f == fields[i] IN
            IF OptionValues(f) = {}
            THEN field_values[f["id"]] = ""
            ELSE field_values[f["id"]] \in OptionValues(f)

\* C15: the form collects exactly one value per field, under the field's id:
\* the keys of field_values are the field ids; a field of an unrecognized
\* type is collected as the text typed, with a warning, and the run goes on.
FieldIds == {fields[i]["id"] : i \in 1..Len(fields)}

UnknownTypeFields ==
    {i \in 1..Len(fields) :
        /\ "type" \in DOMAIN fields[i]
        /\ fields[i]["type"] \notin {"singleline", "text", "multiline",
                                     "select", "checkbox", "date", "number"}}

C15_OneValuePerFieldId ==
    /\ formShown =>
          /\ DOMAIN field_values = FieldIds
          /\ \A i \in UnknownTypeFields :
                /\ "unknown_type" \in ui
                /\ field_values[fields[i]["id"]] \in {"", "x"}
    /\ (pc = "submit" /\ fields # <<>>) => formShown

C15_Witness ==
    /\ formShown
    /\ pc = "done"
    /\ UnknownTypeFields # {}
    /\ field_values["f_odd"] = "x"
    /\ field_values["f_txt"] = ""

\* C16: the payload handed to api_post has the entered title, "Untitled Task"
\* when the title is empty, the id of the selected project, and the collected
\* field_values unchanged.
PayloadBuilt == pc \in {"post_ensure", "post_send"}

C16_PayloadFromDraft ==
    PayloadBuilt =>
        /\ payload.title = (IF base_title = "" THEN "Untitled Task"
                            ELSE base_title)
        /\ payload.project = proj_id
        /\ payload.fields = field_values
        /\ DOMAIN payload = {"title", "description", "project", "fields"}

C16_Witness ==
    /\ pc = "post_send"
    /\ base_title = ""
    /\ payload.title = "Untitled Task"
    /\ payload.project = "P1"
    /\ DOMAIN payload.fields = {"f_txt", "f_odd"}

\* the kinds of the requests of a log, in order
Kinds(log) == [i \in 1..Len(log) |-> log[i].kind]

IsPrefix(a, b) == Len(a) <= Len(b) /\ a = SubSeq(b, 1, Len(a))

NotRefresh(e) == e.kind # "refresh"

\* the requests of a log other than the refreshes of ensure_token
WithoutRefresh(log) == SelectSeq(log, NotRefresh)

\* the log follows the chain exchange, list GET, detail GET, task POST, the
\* exchange being optional
FollowsChain(log) ==
    \/ IsPrefix(Kinds(log), <<"exchange", "get", "get", "post">>)
    \/ IsPrefix(Kinds(log), <<"get", "get", "post">>)

\* the list the project-list answer yields
YieldedList(v) == IF v.t = "list" THEN v.l ELSE v.d["data"].l

\* what C17 says of a step, given the statuses that count as a GET that
\* succeeded and the part of the log that has to follow the chain
ChainStep(good, log) ==
    /\ FollowsChain(log)
    /\ (ListStep /\ pc' = "detail_ensure") =>
          /\ r'.status \in good
          /\ YieldedList(r'.body.val) # <<>>
          /\ proj_id' \in ProjectIds(YieldedList(r'.body.val))
    /\ (pc = "detail_send" /\ pc' = "form") => r'.status \in good
    /\ (pc \in {"detail_ensure", "detail_send", "form", "submit",
                "post_ensure", "post_send"} /\ pc' # "code")
          => proj_id' = proj_id
    /\ Sent({"post"}) =>
          /\ submitted
          /\ formShown
          /\ Kinds(WithoutRefresh(netlog)) = <<"get", "get">>
          /\ payload.project = proj_id

\* C17 as stated: the requests of a run follow the chain exchange (optional),
\* project-list GET, project-detail GET, task POST; the POST is sent at most
\* once, only when the form was submitted and only after both GETs of the run
\* returned 2xx with a non-empty project list, with a project id of that list.
C17_RequestChain2xx ==
    [][ ChainStep(200..299, netlog') ]_vars

\* C17 amended: the same of the requests other than the refresh requests that
\* ensure_token may send before each API call, and with a GET counting as
\* succeeded when its status is below 400.
C17_RequestChain ==
    [][ ChainStep({st \in Statuses : st < 400}, WithoutRefresh(netlog')) ]_vars

C17_Witness ==
    /\ pc = "done"
    /\ Kinds(netlog) = <<"get", "refresh", "get", "post">>
    /\ payload.project = "P2"
    /\ "task_created" \in ui

\* the step taken is the OAuth code flow block
CodeFlowStep == pc = "code" /\ (pc' # pc \/ netlog' # netlog)

\* C18: a run that carries an authorization code into a session whose token is
\* not valid sends the exchange request, and when the token endpoint accepts
\* the code a valid credential is in the session afterwards.
C18_ReauthAlwaysWorks ==
    [][ (CodeFlowStep /\ query # "none" /\ ~HoldsUnexpiredToken) =>
           /\ Sent({"exchange"})
           /\ (r'.status < 400 /\ CarriesAccessToken(r'))
                 => HoldsUnexpiredToken' ]_vars

\* a run at its start, before any request, in a session whose stored
\* access_token has expired
StaleRun ==
    /\ pc \in {"code", "gate"}
    /\ netlog = <<>>
    /\ "access_token" \in DOMAIN session
    /\ now >= session["expires_at"]

\* C19: a run that starts with a stored access_token whose expires_at has
\* passed sends no request (no exchange even with a code in the query, no
\* refresh even with a refresh token stored) and ends at the login link; a
\* refresh request is sent only by ensure_token, in a run that passed the
\* login gate, when the token is no longer valid.
C19_StaleRunSendsNothing ==
    [][ /\ StaleRun =>
              /\ netlog' = netlog
              /\ \/ StaleRun'
                 \/ pc = "gate" /\ pc' = "stopped" /\ "login_link" \in ui'
                       /\ session' = session
        /\ Sent({"refresh"}) =>
              /\ EnsureStep
              /\ "connected" \in ui
              /\ ~HoldsUnexpiredToken ]_vars

C19_Witness ==
    /\ pc = "stopped"
    /\ "login_link" \in ui
    /\ netlog = <<>>
    /\ query # "none"
    /\ HoldsRefreshToken(session)
    /\ now >= session["expires_at"]
====
